---- MODULE Spec2Model ----
(***************************************************************************)
(* Event-notification bot (src/bot.py, src/database.py): the relational    *)
(* store (users, events, notifications), the APScheduler job store, the    *)
(* notification dispatcher and the two reconciliation paths.               *)
(*                                                                         *)
(* Time is counted in ticks of five minutes (the misfire grace time of     *)
(* 300 s is one tick).  A timezone-aware datetime is a record              *)
(* [wall, utcoffset]: the wall-clock reading and the offset of its zone;   *)
(* the instant it denotes is wall - utcoffset.  A naive datetime is a bare *)
(* wall-clock reading.                                                     *)
(***************************************************************************)
EXTENDS Integers, Sequences, FiniteSets, Bags, TLC

(***************************************************************************)
(* Bounds of the model.                                                    *)
(***************************************************************************)
MaxUsers == 2
MaxEvents == 1
MaxRuns == 2
MaxRestarts == 1
MaxFailures == 1

UserIds == 1..MaxUsers
EventIds == 1..MaxEvents
RunIds == 1..MaxRuns

(***************************************************************************)
(* Program constants.                                                      *)
(***************************************************************************)
\* ADMIN_ID of the environment: the one privileged user id
AdminId == 1
\* utcoffset of TIMEZONE, default 'Asia/Almaty' (UTC+5): 5 h = 60 ticks
TzOffset == 60
\* misfire_grace_time = 300 s
MisfireGrace == 1
\* notification_type VARCHAR(20)
TypeMaxLen == 20
\* timedelta(days=1), (hours=6), (hours=1), (minutes=15), (minutes=-15)
Day1 == 288
Hours6 == 72
Hour1 == 12
Minutes15 == 3
MinutesAfter15 == -3

notification_times ==
  << [delta |-> Day1,           text |-> "Event starts in 1 day"],
     [delta |-> Hours6,         text |-> "Event starts in 6 hours"],
     [delta |-> Hour1,          text |-> "Event starts in 1 hour"],
     [delta |-> Minutes15,      text |-> "Event starts in 15 minutes"],
     [delta |-> MinutesAfter15, text |-> "Event started 15 minutes ago"] >>

Offsets == 1..Len(notification_times)
ReminderTexts == {notification_times[i].text : i \in Offsets}
InitialType == "initial_notification"

(***************************************************************************)
(* datetime and pytz.  A datetime is [wall, tzinfo]: tzinfo "None" is a    *)
(* naive datetime, "local" the configured TIMEZONE, "UTC" pytz.UTC.        *)
(***************************************************************************)
naive(w) == [wall |-> w, tzinfo |-> "None"]
utcoffset(tz) == IF tz = "local" THEN TzOffset ELSE 0
\* the instant an aware datetime denotes
Instant(dt) == dt.wall - utcoffset(dt.tzinfo)
\* local_tz.localize(dt): stamp the wall-clock reading with the local zone
localize(dt) == [wall |-> dt.wall, tzinfo |-> "local"]
\* dt.astimezone(pytz.UTC)
astimezone_utc(dt) == [wall |-> Instant(dt), tzinfo |-> "UTC"]
\* dt.replace(tzinfo=None)
replace_tzinfo_none(dt) == naive(dt.wall)
\* datetime.now(local_tz) when the clock shows the instant t
now_local(t) == [wall |-> t + TzOffset, tzinfo |-> "local"]
\* datetime.now(pytz.UTC).replace(tzinfo=None)
utc_now(t) == replace_tzinfo_none([wall |-> t, tzinfo |-> "UTC"])
\* datetime.now(): the wall clock of the host, whose zone has offset off
host_now(t, off) == naive(t + off)
\* dt - timedelta keeps the tzinfo
minus(dt, delta) == [wall |-> dt.wall - delta, tzinfo |-> dt.tzinfo]
\* a > b on two aware datetimes compares instants
After(a, b) == Instant(a) > Instant(b)

(***************************************************************************)
(* The store (src/database.py).  events is the events table in event_id    *)
(* order (event_id SERIAL = position), users the set of rows               *)
(* [user_id, phone_number, first_name, last_name] of the users table,      *)
(* notifications the bag of (event_id, user_id, notification_type) rows.   *)
(***************************************************************************)
\* the row a registration hands to add_user; phone number and first name are
\* the values the FSM data holds, the last name is the text of the message
UserRow(user_id, last_name) ==
  [user_id |-> user_id, phone_number |-> "phone", first_name |-> "first",
   last_name |-> last_name]
\* SELECT user_id FROM users
get_all_users(usrs) == {x.user_id : x \in usrs}
\* SELECT * FROM users WHERE user_id = $1
get_user(usrs, user_id) == {x \in usrs : x.user_id = user_id}

\* INSERT INTO events ... RETURNING event_id; created_by REFERENCES users
create_event_raises(usrs, created_by) == get_user(usrs, created_by) = {}
create_event(evs, event_datetime, created_by, t) ==
  LET stored == IF event_datetime.tzinfo # "None"
                THEN replace_tzinfo_none(astimezone_utc(event_datetime))
                ELSE event_datetime
  IN Append(evs, [event_datetime |-> stored.wall, created_by |-> created_by,
                  created_at |-> utc_now(t).wall])

\* ORDER BY event_datetime (rows of equal datetime in event_id order)
RECURSIVE OrderByDatetime(_, _)
OrderByDatetime(evs, ids) ==
  IF ids = {} THEN << >>
  ELSE LET first == CHOOSE e \in ids : \A f \in ids :
                      \/ evs[e].event_datetime < evs[f].event_datetime
                      \/ evs[e].event_datetime = evs[f].event_datetime /\ e <= f
       IN << first >> \o OrderByDatetime(evs, ids \ {first})

\* WHERE event_datetime > utc_now; rows localized with the configured zone
get_upcoming_events(evs, t) ==
  LET ids  == {e \in DOMAIN evs : evs[e].event_datetime > utc_now(t).wall}
      rows == OrderByDatetime(evs, ids)
  IN [i \in DOMAIN rows |->
        [event_id |-> rows[i],
         event_datetime |-> localize(naive(evs[rows[i]].event_datetime))]]

\* mutant: the query without its NOT EXISTS clause
get_events_for_new_user_no_ledger(evs, ntf, user_id, t, off) ==
  LET ids  == {e \in DOMAIN evs : evs[e].event_datetime > host_now(t, off).wall}
      rows == OrderByDatetime(evs, ids)
  IN [i \in DOMAIN rows |->
        [event_id |-> rows[i],
         event_datetime |-> naive(evs[rows[i]].event_datetime)]]
\* WHERE event_datetime > datetime.now() AND NOT EXISTS (initial row)
get_events_for_new_user(evs, ntf, user_id, t, off) ==
  LET ids  == {e \in DOMAIN evs :
                 /\ evs[e].event_datetime > host_now(t, off).wall
                 /\ CopiesIn(<< e, user_id, InitialType >>, ntf) = 0}
      rows == OrderByDatetime(evs, ids)
  IN [i \in DOMAIN rows |->
        [event_id |-> rows[i],
         event_datetime |-> naive(evs[rows[i]].event_datetime)]]

\* INSERT ... ON CONFLICT (event_id, user_id, notification_type) DO NOTHING.
\* The statement raises on a value too long for VARCHAR(20), on a broken
\* foreign key and on a fault of the connection; the except clause re-raises.
record_notification_raises(evs, usrs, event_id, user_id, type, fault) ==
  \/ fault
  \/ Len(type) > TypeMaxLen
  \/ event_id \notin DOMAIN evs
  \/ get_user(usrs, user_id) = {}
\* mutant: the INSERT without its ON CONFLICT clause and unique constraint
record_notification_plain_insert(ntf, evs, usrs, event_id, user_id, type, fault) ==
  IF record_notification_raises(evs, usrs, event_id, user_id, type, fault)
  THEN ntf
  ELSE ntf (+) SetToBag({<< event_id, user_id, type >>})
record_notification(ntf, evs, usrs, event_id, user_id, type, fault) ==
  LET row == << event_id, user_id, type >>
  IN IF record_notification_raises(evs, usrs, event_id, user_id, type, fault)
     THEN ntf
     ELSE IF CopiesIn(row, ntf) > 0 THEN ntf
     ELSE ntf (+) SetToBag({row})

\* mutant: the INSERT without ON CONFLICT: the primary key rejects a user_id
\* the table holds
add_user_plain_insert(usrs, row, fault) ==
  IF fault \/ get_user(usrs, row.user_id) # {}
  THEN [raised |-> TRUE, users |-> usrs]
  ELSE [raised |-> FALSE, users |-> usrs \cup {row}]
\* INSERT ... ON CONFLICT (user_id) DO UPDATE SET phone_number, first_name,
\* last_name; raises on a fault of the connection only
add_user(usrs, row, fault) ==
  IF fault
  THEN [raised |-> TRUE, users |-> usrs]
  ELSE [raised |-> FALSE,
        users |-> {x \in usrs : x.user_id # row.user_id} \cup {row}]

(***************************************************************************)
(* The scheduler (APScheduler, memory job store).  A job is                *)
(* [id, run_date, args]; run_date is kept as the instant of the aware      *)
(* datetime handed to add_job, args as [event_id, text] (title,            *)
(* description and photo_id are fixed by event_id).  A job id is           *)
(* [event, user, delta]: "event_{e}_notification_{delta}" has user 0,      *)
(* "event_{e}_user_{u}_notification_{delta}" has user u.                   *)
(***************************************************************************)
NoUser == 0
broadcast_job_id(event_id, delta) ==
  [event |-> event_id, user |-> NoUser, delta |-> delta]
user_job_id(event_id, user_id, delta) ==
  [event |-> event_id, user |-> user_id, delta |-> delta]

\* mutant: add_job that keeps the job already stored under the id
add_job_keep_existing(js, id, run_date, args) ==
  js \cup {[id |-> id, run_date |-> Instant(run_date), args |-> args]}
\* scheduler.add_job(..., id=job_id, replace_existing=True)
add_job(js, id, run_date, args) ==
  {j \in js : j.id # id} \cup
  {[id |-> id, run_date |-> Instant(run_date), args |-> args]}


(***************************************************************************)
(* Reconciliation (src/bot.py).                                            *)
(***************************************************************************)
\* mutant: the loop without the test notification_time > now
RECURSIVE schedule_event_loop_no_past_check(_, _, _, _, _, _)
schedule_event_loop_no_past_check(js, i, event_id, event_datetime, t, faults) ==
  IF i > Len(notification_times) THEN js
  ELSE LET nt == notification_times[i]
           notification_time == minus(event_datetime, nt.delta)
       IN schedule_event_loop_no_past_check(
            add_job(js, broadcast_job_id(event_id, nt.delta), notification_time,
                    [event_id |-> event_id, text |-> nt.text]),
            i + 1, event_id, event_datetime, t, faults)

\* the loop of schedule_event_notifications from offset i on; an add_job
\* that raises (i \in faults) is logged and the loop goes on
RECURSIVE schedule_event_loop(_, _, _, _, _, _)
schedule_event_loop(js, i, event_id, event_datetime, t, faults) ==
  IF i > Len(notification_times) THEN js
  ELSE LET nt == notification_times[i]
           notification_time == minus(event_datetime, nt.delta)
           aware == IF notification_time.tzinfo = "None"
                    THEN localize(notification_time) ELSE notification_time
           js1 == IF After(aware, now_local(t)) /\ i \notin faults
                  THEN add_job(js, broadcast_job_id(event_id, nt.delta), aware,
                               [event_id |-> event_id, text |-> nt.text])
                  ELSE js
       IN schedule_event_loop(js1, i + 1, event_id, event_datetime, t, faults)

schedule_event_notifications(js, event_id, event_datetime, t, faults) ==
  LET aware == IF event_datetime.tzinfo = "None"
               THEN localize(event_datetime) ELSE event_datetime
  IN schedule_event_loop(js, 1, event_id, aware, t, faults)

\* the scheduling loop of schedule_notifications_for_new_user for one event
\* row; an add_job that raises leaves the loop (the handler of the event's
\* try block logs and continues with the next event)
RECURSIVE schedule_user_loop(_, _, _, _, _, _)
schedule_user_loop(js, i, event, user_id, t, faults) ==
  IF i > Len(notification_times) THEN js
  ELSE LET nt == notification_times[i]
           notification_time == minus(event.event_datetime, nt.delta)
           aware == IF notification_time.tzinfo = "None"
                    THEN localize(notification_time) ELSE notification_time
       IN IF After(aware, now_local(t))
          THEN IF i \in faults THEN js
               ELSE schedule_user_loop(
                      add_job(js, user_job_id(event.event_id, user_id, nt.delta),
                              aware,
                              [event_id |-> event.event_id, text |-> nt.text]),
                      i + 1, event, user_id, t, faults)
          ELSE schedule_user_loop(js, i + 1, event, user_id, t, faults)

\* the offsets for which the two loops call add_job: notification_time > now
future_offsets(event_datetime, t) ==
  LET aware == IF event_datetime.tzinfo = "None"
               THEN localize(event_datetime) ELSE event_datetime
  IN {i \in Offsets :
        After(minus(aware, notification_times[i].delta), now_local(t))}

\* on_startup: schedule_event_notifications for every upcoming event
RECURSIVE startup_loop(_, _, _, _)
startup_loop(js, rows, k, t) ==
  IF k > Len(rows) THEN js
  ELSE startup_loop(
         schedule_event_notifications(js, rows[k].event_id,
                                      rows[k].event_datetime, t, {}),
         rows, k + 1, t)

(***************************************************************************)
(* The dispatcher (send_notification).  delivered is the set of users      *)
(* whose send_photo returned; for each of them record_notification is      *)
(* called, and what it raises is caught user by user.                      *)
(***************************************************************************)
RECURSIVE record_each(_, _, _, _, _, _)
record_each(ntf, evs, usrs, todo, event_id, type) ==
  IF todo = {} THEN ntf
  ELSE LET u == CHOOSE x \in todo : TRUE
       IN record_each(
            record_notification(ntf, evs, usrs, event_id, u, type, FALSE),
            evs, usrs, todo \ {u}, event_id, type)

photos(event_id, delivered, what) ==
  SetToBag({<< event_id, u, what >> : u \in delivered})


(***************************************************************************)
(* State.                                                                  *)
(***************************************************************************)
VARIABLES
  now,            \* the clock: the current instant
  hostOff,        \* utcoffset of the zone of the host (datetime.now())
  up,             \* the process runs (on_startup done, on_shutdown not yet)
  restarts,       \* number of shutdowns so far
  users,          \* table users
  events,         \* table events
  notifications,  \* table notifications
  jobs,           \* the scheduler's job store
  fsm,            \* MemoryStorage: the FSM state of each chat user
  runs,           \* the process_last_name handlers in flight or finished
  sent,           \* everything the transport delivered: bag of <<event, user, what>>
  lastBatch,      \* the last call of send_notification and its outcome
  savedJobs,      \* the job store as it was when on_shutdown was called
  failures,       \* number of transport and store failures so far
  probe           \* the last direct call of a store or scheduler operation,
                  \* or the last refusal of a command

vars == << now, hostOff, up, restarts, users, events, notifications, jobs,
           fsm, runs, sent, lastBatch, savedJobs, failures, probe >>

NoBatch == [event_id |-> 0, text |-> "", users |-> {}, delivered |-> {},
            raised |-> FALSE]
NoProbe == [op |-> "none"]
IdleRun == [pc |-> "idle", user |-> NoUser, last_name |-> "", queue |-> << >>]
\* the last names a registration may enter
LastNames == {"a", "b"}
\* the row of the admin, registered before the bot is started
AdminRow == UserRow(AdminId, "a")

\* the local wall-clock readings an admin may enter as date and time
EventWalls == {100 + TzOffset, 300 + TzOffset}
\* the instants the clock may jump to besides the due times of jobs
Instants == {28, 301}

Init ==
  /\ now = 0
  /\ hostOff \in {0, TzOffset}
  /\ up = TRUE
  /\ restarts = 0
  /\ users = {AdminRow}
  /\ events = << >>
  /\ notifications = EmptyBag
  /\ jobs = {}
  /\ fsm = [u \in UserIds |-> "None"]
  /\ runs = [r \in RunIds |-> IdleRun]
  /\ sent = EmptyBag
  /\ lastBatch = NoBatch
  /\ savedJobs = {}
  /\ failures = 0
  /\ probe = NoProbe

\* a step that suffers n failures of the transport or the store
Fail(n) ==
  /\ failures + n <= MaxFailures
  /\ failures' = failures + n
Flag(b) == IF b THEN 1 ELSE 0

(***************************************************************************)
(* Registration conversation.                                              *)
(***************************************************************************)
\* /start of a user get_user does not find
Start(u) ==
  /\ up /\ fsm[u] = "None" /\ get_user(users, u) = {}
  /\ fsm' = [fsm EXCEPT ![u] = "Registration:phone_number"]
  /\ UNCHANGED << now, hostOff, up, restarts, users, events, notifications,
                  jobs, runs, sent, lastBatch, savedJobs, failures, probe >>

ProcessPhoneNumber(u) ==
  /\ up /\ fsm[u] = "Registration:phone_number"
  /\ fsm' = [fsm EXCEPT ![u] = "Registration:first_name"]
  /\ UNCHANGED << now, hostOff, up, restarts, users, events, notifications,
                  jobs, runs, sent, lastBatch, savedJobs, failures, probe >>

ProcessFirstName(u) ==
  /\ up /\ fsm[u] = "Registration:first_name"
  /\ fsm' = [fsm EXCEPT ![u] = "Registration:last_name"]
  /\ UNCHANGED << now, hostOff, up, restarts, users, events, notifications,
                  jobs, runs, sent, lastBatch, savedJobs, failures, probe >>

\* process_last_name is dispatched for a message of u (the state filter
\* matches) and awaits db.add_user
ProcessLastName(r, u, last_name) ==
  /\ up /\ fsm[u] = "Registration:last_name"
  /\ runs[r].pc = "idle"
  /\ \A q \in RunIds : q < r => runs[q].pc # "idle"
  /\ runs' = [runs EXCEPT ![r] = [pc |-> "add_user", user |-> u,
                                  last_name |-> last_name, queue |-> << >>]]
  /\ UNCHANGED << now, hostOff, up, restarts, users, events, notifications,
                  jobs, fsm, sent, lastBatch, savedJobs, failures, probe >>

\* the names bot.py binds at module level do not include asyncpg (it is
\* imported by database.py only)
asyncpg_imported == FALSE

\* the except clauses of process_last_name for an exception raised in the
\* try block: the expression of the first clause,
\* asyncpg.exceptions.UniqueViolationError, is evaluated to match the
\* exception, and raises NameError when asyncpg is not bound; otherwise the
\* clause does not match a storage fault and except Exception replies
process_last_name_except ==
  IF asyncpg_imported THEN "apology" ELSE "NameError"

\* db.add_user returns; state.finish(); the confirmation reply.  An
\* add_user that raises takes the handler to its except clauses: the user
\* gets the apology, or the NameError leaves the handler.
AddUser(r, fault) ==
  /\ up /\ runs[r].pc = "add_user"
  /\ Fail(Flag(fault))
  /\ LET out == add_user(users, UserRow(runs[r].user, runs[r].last_name), fault)
     IN IF out.raised
        THEN /\ IF process_last_name_except = "apology"
                THEN /\ sent' = sent (+) SetToBag({<< 0, runs[r].user,
                                                      "apology" >>})
                     /\ runs' = [runs EXCEPT ![r].pc = "done"]
                ELSE /\ sent' = sent
                     /\ runs' = [runs EXCEPT ![r].pc = "raised"]
             /\ UNCHANGED << users, fsm >>
        ELSE /\ users' = out.users
             /\ fsm' = [fsm EXCEPT ![runs[r].user] = "None"]
             /\ runs' = [runs EXCEPT ![r].pc = "fetch"]
             /\ sent' = sent
  /\ UNCHANGED << now, hostOff, up, restarts, events, notifications, jobs,
                  lastBatch, savedJobs, probe >>

(***************************************************************************)
(* schedule_notifications_for_new_user, one action per stretch between     *)
(* two awaits.                                                             *)
(***************************************************************************)
NextPc(queue) == IF queue = << >> THEN "done" ELSE "photo"

\* mutant: the branch for no events lacks its return
Fetch_without_return(r, ok) ==
  /\ up /\ runs[r].pc = "fetch"
  /\ Fail(Flag(~ ok))
  /\ LET u    == runs[r].user
         rows == get_events_for_new_user(events, notifications, u, now, hostOff)
     IN IF rows = << >>
        THEN /\ sent' = IF ok
                        THEN sent (+) SetToBag({<< 0, u, "no_events" >>})
                                  (+) SetToBag({<< 0, u, "welcome" >>})
                        ELSE sent
             /\ runs' = [runs EXCEPT ![r].pc = "done"]
        ELSE IF ok
        THEN /\ sent' = sent (+) SetToBag({<< 0, u, "welcome" >>})
             /\ runs' = [runs EXCEPT ![r].pc = "photo", ![r].queue = rows]
        ELSE /\ sent' = sent
             /\ runs' = [runs EXCEPT ![r].pc = "done"]
  /\ UNCHANGED << now, hostOff, up, restarts, users, events, notifications,
                  jobs, fsm, lastBatch, savedJobs, probe >>

\* get_events_for_new_user, then the courtesy or the welcome message
Fetch(r, ok) ==
  /\ up /\ runs[r].pc = "fetch"
  /\ Fail(Flag(~ ok))
  /\ LET u    == runs[r].user
         rows == get_events_for_new_user(events, notifications, u, now, hostOff)
     IN IF rows = << >>
        THEN /\ sent' = IF ok THEN sent (+) SetToBag({<< 0, u, "no_events" >>})
                        ELSE sent
             /\ runs' = [runs EXCEPT ![r].pc = "done"]
        ELSE IF ok
        THEN /\ sent' = sent (+) SetToBag({<< 0, u, "welcome" >>})
             /\ runs' = [runs EXCEPT ![r].pc = "photo", ![r].queue = rows]
        ELSE /\ sent' = sent
             /\ runs' = [runs EXCEPT ![r].pc = "done"]
  /\ UNCHANGED << now, hostOff, up, restarts, users, events, notifications,
                  jobs, fsm, lastBatch, savedJobs, probe >>

\* mutant: a send_photo that raises is followed by record_notification all
\* the same
SendPhoto_then_record_always(r, ok) ==
  /\ up /\ runs[r].pc = "photo"
  /\ Fail(Flag(~ ok))
  /\ sent' = IF ok THEN sent (+) photos(Head(runs[r].queue).event_id,
                                        {runs[r].user}, "details")
             ELSE sent
  /\ runs' = [runs EXCEPT ![r].pc = "record"]
  /\ UNCHANGED << now, hostOff, up, restarts, users, events, notifications,
                  jobs, fsm, lastBatch, savedJobs, probe >>

\* mutant: a send_photo that raises ends the loop over the events
SendPhoto_abort_on_failure(r, ok) ==
  /\ up /\ runs[r].pc = "photo"
  /\ Fail(Flag(~ ok))
  /\ LET u == runs[r].user
         event == Head(runs[r].queue)
     IN IF ok
        THEN /\ sent' = sent (+) photos(event.event_id, {u}, "details")
             /\ runs' = [runs EXCEPT ![r].pc = "record"]
        ELSE /\ sent' = sent
             /\ runs' = [runs EXCEPT ![r].pc = "done", ![r].queue = << >>]
  /\ UNCHANGED << now, hostOff, up, restarts, users, events, notifications,
                  jobs, fsm, lastBatch, savedJobs, probe >>

\* bot.send_photo of the details of the next event; when it raises the
\* handler of the event's try block logs and the loop goes on
SendPhoto(r, ok) ==
  /\ up /\ runs[r].pc = "photo"
  /\ Fail(Flag(~ ok))
  /\ LET u == runs[r].user
         event == Head(runs[r].queue)
     IN IF ok
        THEN /\ sent' = sent (+) photos(event.event_id, {u}, "details")
             /\ runs' = [runs EXCEPT ![r].pc = "record"]
        ELSE /\ sent' = sent
             /\ runs' = [runs EXCEPT ![r].pc = NextPc(Tail(runs[r].queue)),
                                     ![r].queue = Tail(runs[r].queue)]
  /\ UNCHANGED << now, hostOff, up, restarts, users, events, notifications,
                  jobs, fsm, lastBatch, savedJobs, probe >>

\* db.record_notification(..., "initial_notification") returns, then the
\* scheduling loop of the event; fault is a record_notification that
\* raises, faults the offsets whose add_job raises
RecordAndSchedule(r, fault, faults) ==
  /\ up /\ runs[r].pc = "record"
  /\ faults \subseteq future_offsets(Head(runs[r].queue).event_datetime, now)
  /\ fault => faults = {}
  /\ Fail(Flag(fault) + Cardinality(faults))
  /\ LET u == runs[r].user
         event == Head(runs[r].queue)
         raises == record_notification_raises(events, users, event.event_id, u,
                                              InitialType, fault)
     IN /\ notifications' = record_notification(notifications, events, users,
                              event.event_id, u, InitialType, fault)
        /\ jobs' = IF raises THEN jobs
                   ELSE schedule_user_loop(jobs, 1, event, u, now, faults)
        /\ runs' = [runs EXCEPT ![r].pc = NextPc(Tail(runs[r].queue)),
                                ![r].queue = Tail(runs[r].queue)]
  /\ UNCHANGED << now, hostOff, up, restarts, users, events, fsm, sent,
                  lastBatch, savedJobs, probe >>


(***************************************************************************)
(* send_notification: the job a reminder runs.  fails is the set of users  *)
(* whose send_photo raises, fault a get_all_users that raises.             *)
(***************************************************************************)
\* mutant: the recipients are the users the event was announced to when it
\* was created
send_notification_recipients_at_creation(ntf, snt, evs, usrs, args, fails, fault) ==
  IF fault
  THEN [ntf |-> ntf, sent |-> snt,
        batch |-> [event_id |-> args.event_id, text |-> args.text,
                   users |-> {}, delivered |-> {}, raised |-> FALSE]]
  ELSE LET all == {u \in get_all_users(usrs) :
                     CopiesIn(<< args.event_id, u, "creation" >>, snt) > 0}
           delivered == all \ fails
       IN [ntf |-> record_each(ntf, evs, usrs, delivered, args.event_id, args.text),
           sent |-> snt (+) photos(args.event_id, delivered, args.text),
           batch |-> [event_id |-> args.event_id, text |-> args.text,
                      users |-> all, delivered |-> delivered, raised |-> FALSE]]

send_notification(ntf, snt, evs, usrs, args, fails, fault) ==
  IF fault
  THEN [ntf |-> ntf, sent |-> snt,
        batch |-> [event_id |-> args.event_id, text |-> args.text,
                   users |-> {}, delivered |-> {}, raised |-> FALSE]]
  ELSE LET all == get_all_users(usrs)
           delivered == all \ fails
       IN [ntf |-> record_each(ntf, evs, usrs, delivered, args.event_id, args.text),
           sent |-> snt (+) photos(args.event_id, delivered, args.text),
           batch |-> [event_id |-> args.event_id, text |-> args.text,
                      users |-> all, delivered |-> delivered, raised |-> FALSE]]

\* send_event_creation_notification: a photo to every user, nothing recorded
send_event_creation_notification(snt, usrs, event_id, fails) ==
  snt (+) photos(event_id, get_all_users(usrs) \ fails, "creation")

(***************************************************************************)
(* Event-creation conversation.                                            *)
(***************************************************************************)
\* mutant: /create_event without the comparison with ADMIN_ID
CreateEventStart_no_admin_check(u) ==
  /\ up /\ fsm[u] = "None"
  /\ Len(events) < MaxEvents
  /\ fsm' = [fsm EXCEPT ![u] = "EventCreation:title"]
  /\ UNCHANGED << now, hostOff, up, restarts, users, events, notifications,
                  jobs, runs, sent, lastBatch, savedJobs, failures, probe >>

\* /create_event: anyone but the admin gets the refusal and nothing else
\* happens; the admin is asked for the title
CreateEventStart(u) ==
  /\ up /\ fsm[u] = "None"
  /\ IF u # AdminId
     THEN /\ probe' = [op |-> "reply", user |-> u,
                       text |-> "Sorry, only admin can create events."]
          /\ UNCHANGED fsm
     ELSE /\ Len(events) < MaxEvents
          /\ fsm' = [fsm EXCEPT ![u] = "EventCreation:title"]
          /\ UNCHANGED probe
  /\ UNCHANGED << now, hostOff, up, restarts, users, events, notifications,
                  jobs, runs, sent, lastBatch, savedJobs, failures >>

ProcessTitle(u) ==
  /\ up /\ fsm[u] = "EventCreation:title"
  /\ fsm' = [fsm EXCEPT ![u] = "EventCreation:description"]
  /\ UNCHANGED << now, hostOff, up, restarts, users, events, notifications,
                  jobs, runs, sent, lastBatch, savedJobs, failures, probe >>

ProcessDescription(u) ==
  /\ up /\ fsm[u] = "EventCreation:description"
  /\ fsm' = [fsm EXCEPT ![u] = "EventCreation:photo"]
  /\ UNCHANGED << now, hostOff, up, restarts, users, events, notifications,
                  jobs, runs, sent, lastBatch, savedJobs, failures, probe >>

ProcessPhoto(u) ==
  /\ up /\ fsm[u] = "EventCreation:photo"
  /\ fsm' = [fsm EXCEPT ![u] = "EventCreation:datetime"]
  /\ UNCHANGED << now, hostOff, up, restarts, users, events, notifications,
                  jobs, runs, sent, lastBatch, savedJobs, failures, probe >>

ProcessDate(u) ==
  /\ up /\ fsm[u] = "EventCreation:datetime"
  /\ fsm' = [fsm EXCEPT ![u] = "EventCreation:time"]
  /\ UNCHANGED << now, hostOff, up, restarts, users, events, notifications,
                  jobs, runs, sent, lastBatch, savedJobs, failures, probe >>

\* mutant: a process_time that stores the event without looking at the clock
ProcessTime_no_past_check(u, w, fails, fault, faults) ==
  /\ up /\ fsm[u] = "EventCreation:time"
  /\ fails \subseteq get_all_users(users) /\ (fault => fails = {})
  /\ faults \subseteq future_offsets(localize(naive(w)), now)
  /\ fault => faults = {}
  /\ Fail(Cardinality(fails) + Flag(fault) + Cardinality(faults))
  /\ LET event_datetime == localize(naive(w))
         event_id == Len(events) + 1
     IN /\ Len(events) < MaxEvents
        /\ ~ create_event_raises(users, u)
        /\ events' = create_event(events, event_datetime, u, now)
        /\ IF fault
           THEN UNCHANGED << sent, jobs, fsm >>
           ELSE /\ sent' = send_event_creation_notification(sent, users,
                                                            event_id, fails)
                /\ jobs' = schedule_event_notifications(jobs, event_id,
                                                        event_datetime, now,
                                                        faults)
                /\ fsm' = [fsm EXCEPT ![u] = "None"]
        /\ UNCHANGED probe
  /\ UNCHANGED << now, hostOff, up, restarts, users, notifications, runs,
                  lastBatch, savedJobs >>

\* process_time with the date and time w: the past check, create_event, the
\* announcement to all users, the reminders, state.finish().  A datetime in
\* the past is answered with a new prompt and the handler returns; a
\* create_event that raises leaves everything as it was; fault is a
\* get_all_users that raises inside the announcement, faults the offsets
\* whose add_job raises.
ProcessTime(u, w, fails, fault, faults) ==
  /\ up /\ fsm[u] = "EventCreation:time"
  /\ fails \subseteq get_all_users(users) /\ (fault => fails = {})
  /\ faults \subseteq future_offsets(localize(naive(w)), now)
  /\ fault => faults = {}
  /\ Fail(Cardinality(fails) + Flag(fault) + Cardinality(faults))
  /\ LET event_datetime == localize(naive(w))
         event_id == Len(events) + 1
     IN IF After(now_local(now), event_datetime)
        THEN /\ fails = {} /\ ~ fault
             /\ probe' = [op |-> "reply", user |-> u,
                          text |-> "You cannot create an event in the past."]
             /\ UNCHANGED << events, sent, jobs, fsm >>
        ELSE /\ Len(events) < MaxEvents
             /\ ~ create_event_raises(users, u)
             /\ events' = create_event(events, event_datetime, u, now)
             /\ IF fault
                THEN UNCHANGED << sent, jobs, fsm >>
                ELSE /\ sent' = send_event_creation_notification(sent, users,
                                                                 event_id,
                                                                 fails)
                     /\ jobs' = schedule_event_notifications(jobs, event_id,
                                                             event_datetime,
                                                             now, faults)
                     /\ fsm' = [fsm EXCEPT ![u] = "None"]
             /\ UNCHANGED probe
  /\ UNCHANGED << now, hostOff, up, restarts, users, notifications, runs,
                  lastBatch, savedJobs >>

(***************************************************************************)
(* The scheduler at work.                                                  *)
(***************************************************************************)
Due(j) == j.run_date <= now
Missed(j) == now - j.run_date > MisfireGrace

\* mutant: the job stays in the job store after it has run
Fire_keep_job(j, fails, fault) ==
  /\ up /\ j \in jobs /\ Due(j)
  /\ fails \subseteq get_all_users(users) /\ (fault => fails = {})
  /\ Fail(Cardinality(fails) + Flag(fault))
  /\ jobs' = jobs
  /\ IF Missed(j)
     THEN UNCHANGED << notifications, sent, lastBatch >>
     ELSE LET out == send_notification(notifications, sent, events, users,
                                       j.args, fails, fault)
          IN /\ notifications' = out.ntf
             /\ sent' = out.sent
             /\ lastBatch' = out.batch
  /\ UNCHANGED << now, hostOff, up, restarts, users, events, fsm, runs,
                  savedJobs, probe >>

\* a due job is run, or dropped when it is later than misfire_grace_time
Fire(j, fails, fault) ==
  /\ up /\ j \in jobs /\ Due(j)
  /\ fails \subseteq get_all_users(users) /\ (fault => fails = {})
  /\ Fail(Cardinality(fails) + Flag(fault))
  /\ jobs' = jobs \ {j}
  /\ IF Missed(j)
     THEN UNCHANGED << notifications, sent, lastBatch >>
     ELSE LET out == send_notification(notifications, sent, events, users,
                                       j.args, fails, fault)
          IN /\ notifications' = out.ntf
             /\ sent' = out.sent
             /\ lastBatch' = out.batch
  /\ UNCHANGED << now, hostOff, up, restarts, users, events, fsm, runs,
                  savedJobs, probe >>

\* time passes; the running scheduler lets no due job wait, but the event
\* loop may wake up late for the earliest one (a delay counts as a failure)
Tick(t) ==
  /\ t > now
  /\ up => /\ \A j \in jobs : ~ Due(j)
           /\ \A j \in jobs : t <= j.run_date + MisfireGrace + 1
  /\ Fail(Flag(up /\ \E j \in jobs : j.run_date < t))
  /\ now' = t
  /\ UNCHANGED << hostOff, up, restarts, users, events, notifications, jobs,
                  fsm, runs, sent, lastBatch, savedJobs, probe >>

\* mutant: a job store that outlives the process
Shutdown_keep_jobs ==
  /\ up /\ restarts < MaxRestarts
  /\ up' = FALSE
  /\ restarts' = restarts + 1
  /\ savedJobs' = jobs
  /\ jobs' = jobs
  /\ fsm' = [u \in UserIds |-> "None"]
  /\ runs' = [r \in RunIds |->
                IF runs[r].pc = "idle" THEN runs[r]
                ELSE [runs[r] EXCEPT !.pc = "done", !.queue = << >>]]
  /\ UNCHANGED << now, hostOff, users, events, notifications, sent, lastBatch,
                  failures, probe >>

\* on_shutdown, and the end of the process: the job store, the FSM storage
\* and the handlers in flight are gone
Shutdown ==
  /\ up /\ restarts < MaxRestarts
  /\ up' = FALSE
  /\ restarts' = restarts + 1
  /\ savedJobs' = jobs
  /\ jobs' = {}
  /\ fsm' = [u \in UserIds |-> "None"]
  /\ runs' = [r \in RunIds |->
                IF runs[r].pc = "idle" THEN runs[r]
                ELSE [runs[r] EXCEPT !.pc = "done", !.queue = << >>]]
  /\ UNCHANGED << now, hostOff, users, events, notifications, sent, lastBatch,
                  failures, probe >>

\* mutant: create_tables that drops the notifications table first
Startup_dropping_tables ==
  /\ ~ up
  /\ up' = TRUE
  /\ notifications' = EmptyBag
  /\ jobs' = startup_loop({}, get_upcoming_events(events, now), 1, now)
  /\ savedJobs' = {}
  /\ UNCHANGED << now, hostOff, restarts, users, events, fsm,
                  runs, sent, lastBatch, failures, probe >>

\* on_startup of a new process: create_tables (CREATE TABLE IF NOT EXISTS
\* leaves the rows alone), scheduler.start, the reminders of the upcoming
\* events
Startup ==
  /\ ~ up
  /\ up' = TRUE
  /\ jobs' = startup_loop({}, get_upcoming_events(events, now), 1, now)
  /\ savedJobs' = {}
  /\ UNCHANGED << now, hostOff, restarts, users, events, notifications, fsm,
                  runs, sent, lastBatch, failures, probe >>

TickTargets ==
  Instants \cup {j.run_date + d : j \in jobs, d \in 0..(MisfireGrace + 1)}

Next ==
  \/ \E u \in UserIds : Start(u)
  \/ \E u \in UserIds : ProcessPhoneNumber(u)
  \/ \E u \in UserIds : ProcessFirstName(u)
  \/ \E r \in RunIds, u \in UserIds : ProcessLastName(r, u, "a")
  \/ \E r \in RunIds, fault \in BOOLEAN : AddUser(r, fault)
  \/ \E r \in RunIds, ok \in BOOLEAN : Fetch(r, ok)
  \/ \E r \in RunIds, ok \in BOOLEAN : SendPhoto(r, ok)
  \/ \E r \in RunIds, fault \in BOOLEAN : RecordAndSchedule(r, fault, {})
  \/ CreateEventStart(AdminId)
  \/ \E u \in UserIds : ProcessTitle(u)
  \/ \E u \in UserIds : ProcessDescription(u)
  \/ \E u \in UserIds : ProcessPhoto(u)
  \/ \E u \in UserIds : ProcessDate(u)
  \/ \E u \in UserIds, w \in EventWalls, fails \in SUBSET UserIds,
        fault \in BOOLEAN : ProcessTime(u, w, fails, fault, {})
  \/ \E j \in jobs, fails \in SUBSET UserIds, fault \in BOOLEAN :
        Fire(j, fails, fault)
  \/ \E t \in TickTargets : Tick(t)
  \/ Shutdown
  \/ Startup

Spec == Init /\ [][Next]_vars


(***************************************************************************)
(* The scheduling part of the system on its own: the event-creation        *)
(* conversation, the scheduler, shutdown and startup.                      *)
(***************************************************************************)
NextSchedule ==
  \/ CreateEventStart(AdminId)
  \/ \E u \in UserIds : ProcessTitle(u)
  \/ \E u \in UserIds : ProcessDescription(u)
  \/ \E u \in UserIds : ProcessPhoto(u)
  \/ \E u \in UserIds : ProcessDate(u)
  \/ \E u \in UserIds, w \in EventWalls, fails \in SUBSET UserIds,
        fault \in BOOLEAN : ProcessTime(u, w, fails, fault, {})
  \/ \E j \in jobs, fails \in SUBSET UserIds, fault \in BOOLEAN :
        Fire(j, fails, fault)
  \/ \E t \in TickTargets : Tick(t)
  \/ Shutdown
  \/ Startup

SpecSchedule == Init /\ [][NextSchedule]_vars

(***************************************************************************)
(* Direct calls of scheduler.add_job, with ids, run dates and payloads     *)
(* drawn from small sets.                                                  *)
(***************************************************************************)
JobIdInputs == {broadcast_job_id(1, Day1), broadcast_job_id(1, Hours6),
                user_job_id(1, 2, Day1)}
RunDateInputs == {localize(naive(160)), localize(naive(288))}
ArgsInputs == {[event_id |-> 1, text |-> notification_times[i].text] : i \in {1, 2}}

AddJob(id, run_date, args) ==
  /\ jobs' = add_job(jobs, id, run_date, args)
  /\ probe' = [op |-> "add_job", id |-> id, run_date |-> Instant(run_date),
               args |-> args, before |-> jobs]
  /\ UNCHANGED << now, hostOff, up, restarts, users, events, notifications,
                  fsm, runs, sent, lastBatch, savedJobs, failures >>

NextJobs ==
  \E id \in JobIdInputs, run_date \in RunDateInputs, args \in ArgsInputs :
    AddJob(id, run_date, args)

SpecJobs == Init /\ [][NextJobs]_vars

(***************************************************************************)
(* Direct calls of db.record_notification on a store that holds one event  *)
(* and two users, with keys drawn from small sets (an event and a user the *)
(* store does not hold among them).                                        *)
(***************************************************************************)
InitRecord ==
  /\ now = 0
  /\ hostOff \in {0, TzOffset}
  /\ up = TRUE
  /\ restarts = 0
  /\ users = {AdminRow, UserRow(2, "a")}
  /\ events = << [event_datetime |-> 300, created_by |-> AdminId,
                  created_at |-> 0] >>
  /\ notifications = EmptyBag
  /\ jobs = {}
  /\ fsm = [u \in UserIds |-> "None"]
  /\ runs = [r \in RunIds |-> IdleRun]
  /\ sent = EmptyBag
  /\ lastBatch = NoBatch
  /\ savedJobs = {}
  /\ failures = 0
  /\ probe = NoProbe

RecordNotification(event_id, user_id, type, fault) ==
  /\ notifications' = record_notification(notifications, events, users,
                                          event_id, user_id, type, fault)
  /\ probe' = [op |-> "record", row |-> << event_id, user_id, type >>,
               fault |-> fault,
               raised |-> record_notification_raises(events, users, event_id,
                                                     user_id, type, fault),
               before |-> notifications]
  /\ UNCHANGED << now, hostOff, up, restarts, users, events, jobs, fsm, runs,
                  sent, lastBatch, savedJobs, failures >>

NextRecord ==
  \E event_id \in {1, 2}, user_id \in {1, 2, 3},
     type \in ReminderTexts \cup {InitialType}, fault \in BOOLEAN :
    RecordNotification(event_id, user_id, type, fault)

SpecRecord == InitRecord /\ [][NextRecord]_vars

(***************************************************************************)
(* Direct calls of db.get_events_for_new_user on stores that hold up to    *)
(* MaxEvents + 1 events, every user, and any initial-announcement rows.    *)
(***************************************************************************)
\* the event_datetime values of the stored events (naive UTC readings)
StoredWalls == {100, 130, 300}
\* the instants at which the query is made
QueryInstants == {0, 120}
StoredEvents ==
  UNION {[1..n -> [event_datetime : StoredWalls, created_by : {AdminId},
                   created_at : {0}]] : n \in 0..(MaxEvents + 1)}

InitUnseen ==
  /\ now \in QueryInstants
  /\ hostOff \in {0, TzOffset}
  /\ up = TRUE
  /\ restarts = 0
  /\ users = {UserRow(u, "a") : u \in UserIds}
  /\ events \in StoredEvents
  /\ \E rows \in SUBSET ((DOMAIN events) \X UserIds \X {InitialType}) :
       notifications = SetToBag(rows)
  /\ jobs = {}
  /\ fsm = [u \in UserIds |-> "None"]
  /\ runs = [r \in RunIds |-> IdleRun]
  /\ sent = EmptyBag
  /\ lastBatch = NoBatch
  /\ savedJobs = {}
  /\ failures = 0
  /\ probe = NoProbe

GetEventsForNewUser(user_id) ==
  /\ probe' = [op |-> "unseen", user |-> user_id,
               rows |-> get_events_for_new_user(events, notifications, user_id,
                                                now, hostOff)]
  /\ UNCHANGED << now, hostOff, up, restarts, users, events, notifications,
                  jobs, fsm, runs, sent, lastBatch, savedJobs, failures >>

NextUnseen == \E user_id \in UserIds : GetEventsForNewUser(user_id)

SpecUnseen == InitUnseen /\ [][NextUnseen]_vars

(***************************************************************************)
(* The two conversations on their own, the registration up to the return   *)
(* of db.add_user: every user may send /create_event, the last names       *)
(* entered differ, and only db.add_user fails.                             *)
(***************************************************************************)
NextConversations ==
  \/ \E u \in UserIds : Start(u)
  \/ \E u \in UserIds : ProcessPhoneNumber(u)
  \/ \E u \in UserIds : ProcessFirstName(u)
  \/ \E r \in RunIds, u \in UserIds, last_name \in LastNames :
        ProcessLastName(r, u, last_name)
  \/ \E r \in RunIds, fault \in BOOLEAN : AddUser(r, fault)
  \/ \E u \in UserIds : CreateEventStart(u)
  \/ \E u \in UserIds : ProcessTitle(u)
  \/ \E u \in UserIds : ProcessDescription(u)
  \/ \E u \in UserIds : ProcessPhoto(u)
  \/ \E u \in UserIds : ProcessDate(u)
  \/ \E u \in UserIds, w \in EventWalls : ProcessTime(u, w, {}, FALSE, {})

SpecConversations == Init /\ [][NextConversations]_vars

(***************************************************************************)
(* The conversations and the reconciliation for new users on their own,    *)
(* started on stores that hold up to MaxEvents + 1 events created at the   *)
(* instant 0 with their reminders pending; faults of add_job are among the *)
(* inputs.                                                                 *)
(***************************************************************************)
\* the jobs process_time left when it created the events evs[k..]
RECURSIVE creation_jobs(_, _, _)
creation_jobs(js, evs, k) ==
  IF k > Len(evs) THEN js
  ELSE creation_jobs(
         schedule_event_notifications(
           js, k, localize(naive(evs[k].event_datetime + TzOffset)), 0, {}),
         evs, k + 1)

InitReconcile ==
  /\ now = 0
  /\ hostOff \in {0, TzOffset}
  /\ up = TRUE
  /\ restarts = 0
  /\ users = {AdminRow}
  /\ events \in StoredEvents
  /\ notifications = EmptyBag
  /\ jobs = creation_jobs({}, events, 1)
  /\ fsm = [u \in UserIds |-> "None"]
  /\ runs = [r \in RunIds |-> IdleRun]
  /\ sent = SetToBag({<< e, AdminId, "creation" >> : e \in DOMAIN events})
  /\ lastBatch = NoBatch
  /\ savedJobs = {}
  /\ failures = 0
  /\ probe = NoProbe

NextReconcile ==
  \/ \E u \in UserIds : Start(u)
  \/ \E u \in UserIds : ProcessPhoneNumber(u)
  \/ \E u \in UserIds : ProcessFirstName(u)
  \/ \E r \in RunIds, u \in UserIds : ProcessLastName(r, u, "a")
  \/ \E r \in RunIds, fault \in BOOLEAN : AddUser(r, fault)
  \/ \E r \in RunIds, ok \in BOOLEAN : Fetch(r, ok)
  \/ \E r \in RunIds, ok \in BOOLEAN : SendPhoto(r, ok)
  \/ \E r \in RunIds, fault \in BOOLEAN, faults \in SUBSET Offsets :
        RecordAndSchedule(r, fault, faults)
  \/ CreateEventStart(AdminId)
  \/ \E u \in UserIds : ProcessTitle(u)
  \/ \E u \in UserIds : ProcessDescription(u)
  \/ \E u \in UserIds : ProcessPhoto(u)
  \/ \E u \in UserIds : ProcessDate(u)
  \/ \E u \in UserIds, w \in EventWalls, fails \in SUBSET UserIds,
        fault \in BOOLEAN, faults \in SUBSET Offsets :
        ProcessTime(u, w, fails, fault, faults)

SpecReconcile == InitReconcile /\ [][NextReconcile]_vars

(***************************************************************************)
(* on_startup on its own, one action per call it awaits, on stores that    *)
(* hold up to MaxEvents + 1 events; probe is the position of the           *)
(* coroutine: what it has done so far and the rows it still has to         *)
(* schedule.  The faults among the inputs are the storage faults:          *)
(* create_pool, create_tables and get_upcoming_events may raise.           *)
(***************************************************************************)
StartupBegin ==
  [op |-> "on_startup", pc |-> "create_pool", pool |-> FALSE,
   tables |-> FALSE, running |-> FALSE, rows |-> << >>]

InitStartup ==
  /\ now \in QueryInstants
  /\ hostOff \in {0, TzOffset}
  /\ up = FALSE
  /\ restarts = 0
  /\ users = {AdminRow}
  /\ events \in StoredEvents
  /\ notifications = EmptyBag
  /\ jobs = {}
  /\ fsm = [u \in UserIds |-> "None"]
  /\ runs = [r \in RunIds |-> IdleRun]
  /\ sent = EmptyBag
  /\ lastBatch = NoBatch
  /\ savedJobs = {}
  /\ failures = 0
  /\ probe = StartupBegin

\* the except clause of on_startup: the exception is logged and raised
\* again, the executor gives up and the process ends with its job store
StartupRaise ==
  /\ probe' = [probe EXCEPT !.pc = "raised", !.rows = << >>]
  /\ up' = FALSE
  /\ jobs' = {}

StartupCreatePool(fault) ==
  /\ probe.pc = "create_pool"
  /\ IF fault THEN StartupRaise
     ELSE /\ probe' = [probe EXCEPT !.pc = "create_tables", !.pool = TRUE]
          /\ UNCHANGED << up, jobs >>
  /\ UNCHANGED << now, hostOff, restarts, users, events, notifications, fsm,
                  runs, sent, lastBatch, savedJobs, failures >>

StartupCreateTables(fault) ==
  /\ probe.pc = "create_tables"
  /\ IF fault THEN StartupRaise
     ELSE /\ probe' = [probe EXCEPT !.pc = "scheduler.start",
                                    !.tables = TRUE]
          /\ UNCHANGED << up, jobs >>
  /\ UNCHANGED << now, hostOff, restarts, users, events, notifications, fsm,
                  runs, sent, lastBatch, savedJobs, failures >>

StartupSchedulerStart ==
  /\ probe.pc = "scheduler.start"
  /\ probe' = [probe EXCEPT !.pc = "get_upcoming_events", !.running = TRUE]
  /\ UNCHANGED << now, hostOff, up, restarts, users, events, notifications,
                  jobs, fsm, runs, sent, lastBatch, savedJobs, failures >>

\* mutant: an except clause that logs the exception and goes on
StartupGetUpcomingEvents_without_raise(fault) ==
  /\ probe.pc = "get_upcoming_events"
  /\ probe' = [probe EXCEPT !.pc = "schedule",
                            !.rows = IF fault THEN << >>
                                     ELSE get_upcoming_events(events, now)]
  /\ UNCHANGED << up, jobs >>
  /\ UNCHANGED << now, hostOff, restarts, users, events, notifications, fsm,
                  runs, sent, lastBatch, savedJobs, failures >>

StartupGetUpcomingEvents(fault) ==
  /\ probe.pc = "get_upcoming_events"
  /\ IF fault THEN StartupRaise
     ELSE /\ probe' = [probe EXCEPT !.pc = "schedule",
                                    !.rows = get_upcoming_events(events, now)]
          /\ UNCHANGED << up, jobs >>
  /\ UNCHANGED << now, hostOff, restarts, users, events, notifications, fsm,
                  runs, sent, lastBatch, savedJobs, failures >>

\* one turn of the loop over the upcoming events
StartupScheduleEvent ==
  /\ probe.pc = "schedule" /\ probe.rows # << >>
  /\ LET event == Head(probe.rows)
     IN jobs' = schedule_event_notifications(jobs, event.event_id,
                                             event.event_datetime, now, {})
  /\ probe' = [probe EXCEPT !.rows = Tail(probe.rows)]
  /\ UNCHANGED << now, hostOff, up, restarts, users, events, notifications,
                  fsm, runs, sent, lastBatch, savedJobs, failures >>

\* on_startup returns and the executor starts polling
StartupReturn ==
  /\ probe.pc = "schedule" /\ probe.rows = << >>
  /\ probe' = [probe EXCEPT !.pc = "done"]
  /\ up' = TRUE
  /\ UNCHANGED << now, hostOff, restarts, users, events, notifications, jobs,
                  fsm, runs, sent, lastBatch, savedJobs, failures >>

NextStartup ==
  \/ \E fault \in BOOLEAN : StartupCreatePool(fault)
  \/ \E fault \in BOOLEAN : StartupCreateTables(fault)
  \/ StartupSchedulerStart
  \/ \E fault \in BOOLEAN : StartupGetUpcomingEvents(fault)
  \/ StartupScheduleEvent
  \/ StartupReturn

SpecStartup == InitStartup /\ [][NextStartup]_vars

(***************************************************************************)
(* Claims.                                                                 *)
(***************************************************************************)
Delivered(e, u, what) == CopiesIn(<< e, u, what >>, sent)
Recorded(e, u, type) == CopiesIn(<< e, u, type >>, notifications)

\* C1: with no transport failure, no delay and no restart, no reminder of an
\* event is delivered to a user more than once.
C1_ReminderAtMostOnce ==
  (failures = 0 /\ restarts = 0) =>
    \A e \in EventIds, u \in UserIds, text \in ReminderTexts :
      Delivered(e, u, text) <= 1

\* C2: the ledger holds at most one initial-announcement row for every event
\* and user.
C2_InitialRecordedAtMostOnce ==
  \A e \in EventIds, u \in UserIds : Recorded(e, u, InitialType) <= 1

\* two runs of the reconciliation for one user both sent the details of an
\* event and both called record_notification for it
C2_Witness ==
  \E e \in EventIds, u \in UserIds :
    /\ failures = 0 /\ restarts = 0
    /\ Delivered(e, u, "details") = 2
    /\ \A r \in RunIds : runs[r].pc = "done" /\ runs[r].user = u
    /\ Recorded(e, u, InitialType) = 1

\* C3: with no failure, the details photo of an event reaches a user at most
\* once, however the runs of the reconciliation for that user interleave.
C3_DetailsPhotoAtMostOnce ==
  failures = 0 =>
    \A e \in EventIds, u \in UserIds : Delivered(e, u, "details") <= 1


\* C4: the job store holds at most one job per id, and after add_job the one
\* job under the id carries the run date and the payload of that call.
C4_OneJobPerId ==
  /\ \A j1 \in jobs, j2 \in jobs : j1.id = j2.id => j1 = j2
  /\ probe.op = "add_job" =>
       {j \in jobs : j.id = probe.id} =
         {[id |-> probe.id, run_date |-> probe.run_date, args |-> probe.args]}

\* add_job was called for an id that held a job of another run date and
\* another payload
C4_Witness ==
  /\ probe.op = "add_job"
  /\ \E j \in probe.before :
       /\ j.id = probe.id
       /\ j.run_date # probe.run_date
       /\ j.args # probe.args
  /\ Cardinality(jobs) = Cardinality(probe.before)

JobOf(event_id, i, due) ==
  [id |-> broadcast_job_id(event_id, notification_times[i].delta),
   run_date |-> due,
   args |-> [event_id |-> event_id, text |-> notification_times[i].text]]

\* the jobs schedule_event_notifications is to leave for an event whose
\* datetime is the instant T, run at the instant t
ExpectedJobs(event_id, T, t) ==
  {JobOf(event_id, i, T - notification_times[i].delta) :
     i \in {k \in Offsets : T - notification_times[k].delta > t}}

C6_RestartRebuildsJobs ==
  [][ (~ up /\ up') => jobs' = {j \in savedJobs : j.run_date > now} ]_vars

\* C7: when send_photo fails for some user of a batch, every user it
\* succeeded for has the row of that reminder, the users it failed for have
\* none, and send_notification raises nothing.
C7_BatchIndependent ==
  (lastBatch.users \ lastBatch.delivered # {}) =>
    /\ \A u \in lastBatch.delivered :
         Recorded(lastBatch.event_id, u, lastBatch.text) >= 1
    /\ \A u \in lastBatch.users \ lastBatch.delivered :
         Delivered(lastBatch.event_id, u, lastBatch.text) = 0 =>
           Recorded(lastBatch.event_id, u, lastBatch.text) = 0
    /\ ~ lastBatch.raised

\* C8: after a reminder job has run, the ledger holds the row
\* (event, user, text of the job) of every user the photo was delivered to.
C8_FiredJobRecorded ==
  \A u \in lastBatch.delivered :
    Recorded(lastBatch.event_id, u, lastBatch.text) >= 1

\* the delivery a row of the ledger stands for
DeliveryOf(type) == IF type = InitialType THEN "details" ELSE type

\* C9: every row of the ledger stands for a delivery that succeeded.
C9_RecordOnlyAfterDelivery ==
  \A row \in BagToSet(notifications) :
    Delivered(row[1], row[2], DeliveryOf(row[3])) >= 1

\* a run whose send_photo failed for the event has finished: the welcome
\* message went out, no details photo did, and the ledger has no row for it
C9_Witness ==
  \E r \in RunIds, e \in DOMAIN events :
    LET u == runs[r].user
    IN /\ runs[r].pc = "done" /\ restarts = 0
       /\ Delivered(0, u, "welcome") = 1
       /\ Delivered(e, u, "details") = 0
       /\ Recorded(e, u, InitialType) = 0

\* C10: record_notification with a key the ledger holds returns without
\* error and leaves the ledger as it was; the same call made again changes
\* nothing; a fault of the store is raised to the caller, the ledger unchanged.
C10_RecordIdempotent ==
  probe.op = "record" =>
    LET row == probe.row
    IN /\ (CopiesIn(row, probe.before) >= 1 /\ ~ probe.fault) =>
            (~ probe.raised /\ notifications = probe.before)
       /\ ~ probe.raised =>
            /\ CopiesIn(row, notifications) = 1
            /\ record_notification(notifications, events, users, row[1], row[2],
                                   row[3], FALSE) = notifications
       /\ probe.fault => (probe.raised /\ notifications = probe.before)

\* record_notification was called a second time with the same key
C10_Witness ==
  /\ probe.op = "record"
  /\ CopiesIn(probe.row, probe.before) = 1
  /\ ~ probe.raised
  /\ notifications = probe.before

\* the events the ledger holds no initial-announcement row of u for
Unseen(u) == {e \in DOMAIN events : Recorded(e, u, InitialType) = 0}
\* the rows are in ascending datetime order, one row per event of ids, each
\* with the stored datetime of its event
AscendingRowsOf(rows, ids) ==
  /\ {rows[i].event_id : i \in DOMAIN rows} = ids
  /\ Len(rows) = Cardinality(ids)
  /\ \A i \in DOMAIN rows :
       rows[i].event_datetime.wall = events[rows[i].event_id].event_datetime
  /\ \A i \in DOMAIN rows, j \in DOMAIN rows :
       i < j => rows[i].event_datetime.wall <= rows[j].event_datetime.wall

C12_LedgerAppendOnly ==
  [][ \A row \in BagToSet(notifications) :
        CopiesIn(row, notifications') >= CopiesIn(row, notifications) ]_vars

\* the ledger holds a row, a reminder job has run and the process has been
\* shut down and started again
C12_Witness ==
  /\ up /\ restarts >= 1
  /\ lastBatch.delivered # {}
  /\ notifications # EmptyBag

\* C13: the step of on_shutdown empties the job store and leaves the ledger,
\* the users and the events as they were; while the process is down the job
\* store stays empty, no job runs and nothing is sent.
C13_ShutdownFrame ==
  [][ /\ (up /\ ~ up') =>
           /\ jobs' = {}
           /\ notifications' = notifications
           /\ users' = users
           /\ events' = events
      /\ ~ up =>
           /\ sent' = sent
           /\ lastBatch' = lastBatch
           /\ notifications' = notifications
           /\ ~ up' => jobs' = {}
    ]_vars

\* the process is down with a ledger row stored, and the due time of a job
\* that was pending at the shutdown has passed
C13_Witness ==
  /\ ~ up
  /\ notifications # EmptyBag
  /\ \E j \in savedJobs : j.run_date <= now
  /\ jobs = {}

\* the reminder deliveries of a step: what sent gained
NewDeliveries(e, u, text) ==
  CopiesIn(<< e, u, text >>, sent') - CopiesIn(<< e, u, text >>, sent)

\* C14: a step that takes a due job from the job store of the running
\* scheduler takes that job only and leaves the scheduler running; when the
\* job is within its grace time the step is a call of send_notification
\* with the payload of the job, which raises nothing whatever fails inside;
\* a reminder is delivered only by a step that takes a due job of that
\* payload from the store, once per user; and no job enters the store
\* with a run date that is not in the future, so a job that has run is not
\* pending again at its due time.
C14_DueJobFiresOnce ==
  [][ /\ \A j \in jobs :
           (up /\ up' /\ Due(j) /\ j \notin jobs') =>
             /\ jobs' = jobs \ {j}
             /\ ~ Missed(j) =>
                  /\ lastBatch'.event_id = j.args.event_id
                  /\ lastBatch'.text = j.args.text
                  /\ ~ lastBatch'.raised
                  /\ sent' = sent (+) photos(j.args.event_id,
                                             lastBatch'.delivered, j.args.text)
      /\ \A e \in EventIds, u \in UserIds, text \in ReminderTexts :
           NewDeliveries(e, u, text) > 0 =>
             /\ NewDeliveries(e, u, text) = 1
             /\ \E j \in jobs :
                  /\ Due(j) /\ ~ Missed(j)
                  /\ j.args = [event_id |-> e, text |-> text]
                  /\ jobs' = jobs \ {j}
      /\ \A j \in jobs' : j \notin jobs => j.run_date > now'
    ]_vars

\* a job has run whose get_all_users raised, the scheduler is running and
\* another job is due within its grace time
C14_Witness ==
  /\ up
  /\ lastBatch.event_id # 0 /\ lastBatch.users = {}
  /\ \E j \in jobs : Due(j) /\ ~ Missed(j)

EventCreationStates ==
  {"EventCreation:title", "EventCreation:description", "EventCreation:photo",
   "EventCreation:datetime", "EventCreation:time"}

\* C15: the users table holds one row per user_id; an add_user that meets
\* no fault of the store returns normally whether or not the id is stored:
\* the one row of the id then holds the phone number and the names of that
\* call, the other rows are as before, and the registration goes on as a
\* success (state finished, reconciliation next).
C15_AddUserUpsert ==
  [][ /\ \A x \in users', y \in users' : x.user_id = y.user_id => x = y
      /\ \A r \in RunIds :
           (runs[r].pc = "add_user" /\ runs'[r].pc # "add_user"
              /\ failures' = failures) =>
             LET row == UserRow(runs[r].user, runs[r].last_name)
             IN /\ get_user(users', row.user_id) = {row}
                /\ {x \in users' : x.user_id # row.user_id} =
                     {x \in users : x.user_id # row.user_id}
                /\ runs'[r].pc = "fetch"
                /\ fsm'[row.user_id] = "None"
    ]_vars

\* two registrations of one user with different last names have both called
\* add_user
C15_Witness ==
  \E r1 \in RunIds, r2 \in RunIds :
    /\ r1 # r2 /\ failures = 0
    /\ runs[r1].user = runs[r2].user
    /\ runs[r1].last_name # runs[r2].last_name
    /\ runs[r1].pc \notin {"idle", "add_user"}
    /\ runs[r2].pc \notin {"idle", "add_user"}

\* C16: every stored event was created by the admin, no user but the admin
\* is in a state of the EventCreation conversation, and the step that
\* answers /create_event with the refusal changes nothing else.
C16_OnlyAdminCreates ==
  [][ /\ \A e \in DOMAIN events' : events'[e].created_by = AdminId
      /\ \A u \in UserIds \ {AdminId} : fsm'[u] \notin EventCreationStates
      /\ probe' # probe =>
           /\ probe'.op = "reply" /\ probe'.user # AdminId
           /\ probe'.text = "Sorry, only admin can create events."
           /\ fsm' = fsm /\ events' = events /\ users' = users
           /\ jobs' = jobs /\ notifications' = notifications /\ sent' = sent
    ]_vars

\* a registered user who is not the admin was refused, and the admin has
\* created an event
C16_Witness ==
  /\ probe.op = "reply"
  /\ get_user(users, probe.user) # {}
  /\ Len(events) >= 1

\* C17: a step of the reconciliation that records the initial announcement
\* of an event for a user comes after the details were sent to that user,
\* leaves the row in the ledger and leaves in the job store, for every
\* offset whose due time (event datetime - offset) is strictly in the
\* future, a job under the per-user id with the text of that offset; the
\* jobs under the broadcast ids stay as they were.
C17_PerUserJobsScheduled ==
  [][ \A r \in RunIds :
        (up' /\ runs[r].pc = "record" /\ runs'[r].pc # "record"
           /\ failures' = failures) =>
          LET u == runs[r].user
              e == Head(runs[r].queue).event_id
              T == events[e].event_datetime
          IN /\ Delivered(e, u, "details") >= 1
             /\ CopiesIn(<< e, u, InitialType >>, notifications') = 1
             /\ \A i \in Offsets :
                  T - notification_times[i].delta > now =>
                    \E j \in jobs' :
                      /\ j.id = user_job_id(e, u, notification_times[i].delta)
                      /\ j.args = [event_id |-> e,
                                   text |-> notification_times[i].text]
             /\ \A j \in jobs : j.id.user = NoUser => j \in jobs'
    ]_vars

\* C18: a user who was sent the announcement of an event when it was
\* created is not sent the details of that event by the reconciliation.
C18_AnnouncedOnce ==
  \A e \in EventIds, u \in UserIds :
    Delivered(e, u, "creation") >= 1 => Delivered(e, u, "details") = 0

\* C19: a step of the loop over the unseen events that meets an error (a
\* send_photo, a record_notification or an add_job that raises) goes on
\* with the next event of the list, or ends the run when there is none;
\* a send_photo that raises leaves the ledger as it was, and after an error
\* of the later steps the ledger holds the row of the event only when its
\* details were delivered.
C19_ErrorSkipsOneEvent ==
  [][ \A r \in RunIds :
        (runs[r].pc \in {"photo", "record"} /\ runs'[r] # runs[r]
           /\ failures' > failures) =>
          LET u == runs[r].user
              e == Head(runs[r].queue).event_id
              rest == Tail(runs[r].queue)
          IN /\ runs'[r].queue = rest
             /\ runs'[r].pc = IF rest = << >> THEN "done" ELSE "photo"
             /\ runs[r].pc = "photo" => notifications' = notifications
             /\ CopiesIn(<< e, u, InitialType >>, notifications') >= 1 =>
                  CopiesIn(<< e, u, "details" >>, sent') >= 1
    ]_vars

\* a run over two events has ended: the send of the earlier event failed,
\* the later event was sent and recorded
C19_Witness ==
  \E r \in RunIds, e1 \in DOMAIN events, e2 \in DOMAIN events :
    LET u == runs[r].user
    IN /\ runs[r].pc = "done" /\ failures = 1
       /\ events[e1].event_datetime < events[e2].event_datetime
       /\ Delivered(0, u, "welcome") = 1
       /\ Delivered(e1, u, "details") = 0 /\ Recorded(e1, u, InitialType) = 0
       /\ Delivered(e2, u, "details") = 1 /\ Recorded(e2, u, InitialType) = 1

\* the offsets of an event that have a job under the ids of user u (NoUser:
\* the broadcast ids) in the job store js
ScheduledOffsets(js, e, u) ==
  {i \in Offsets :
     \E j \in js : j.id = [event |-> e, user |-> u,
                           delta |-> notification_times[i].delta]}

\* C20: when k calls of add_job raise while the reminders of an event are
\* scheduled, at most k of the offsets the loop finds in the future are
\* left without a job: in process_time for the event created, and in the
\* reconciliation for the event whose row the step has just recorded.
C20_FaultDropsOneReminder ==
  [][ /\ (Len(events') = Len(events) + 1 /\ fsm' # fsm) =>
           LET e == Len(events')
               future == future_offsets(
                           [wall |-> events'[e].event_datetime, tzinfo |-> "UTC"],
                           now)
           IN Cardinality(future \ ScheduledOffsets(jobs', e, NoUser))
                <= failures' - failures
      /\ \A r \in RunIds :
           (runs[r].pc = "record" /\ runs'[r].pc # "record"
              /\ notifications' # notifications) =>
             LET event == Head(runs[r].queue)
                 future == future_offsets(event.event_datetime, now)
             IN Cardinality(future \
                            ScheduledOffsets(jobs', event.event_id, runs[r].user))
                  <= failures' - failures
    ]_vars


(***************************************************************************)
(* C21: on_startup opens the pool, then creates the tables, then starts    *)
(* the scheduler, then schedules the reminders of every upcoming event:    *)
(* no job exists before the scheduler runs and the tables exist; a storage *)
(* fault in any of the steps is raised again, so that the process does not *)
(* come up, and a process that is up holds the jobs of every upcoming      *)
(* event.                                                                  *)
(***************************************************************************)
C21_StartupOrderAndAbort ==
  /\ probe.tables => probe.pool
  /\ probe.running => probe.tables
  /\ probe.pc \in {"schedule", "done"} => probe.running
  /\ jobs # {} => probe.running /\ probe.tables /\ probe.pool
  /\ probe.pc = "raised" => ~ up /\ jobs = {}
  /\ up => /\ probe.pc = "done"
           /\ jobs = startup_loop({}, get_upcoming_events(events, now), 1, now)

\* get_upcoming_events raises, after the scheduler was started, on a store
\* that holds an upcoming event
C21_Witness ==
  /\ probe.pc = "raised" /\ probe.running
  /\ get_upcoming_events(events, now) # << >>


(***************************************************************************)
(* C22: once process_time has stored the event, the EventCreation state of *)
(* the creator is cleared before the handler finishes, whatever happens    *)
(* after the INSERT: the step that stores an event leaves its creator in   *)
(* no conversation.                                                        *)
(***************************************************************************)
C22_StateClearedAfterInsert ==
  [][Len(events') > Len(events)
       => fsm'[events'[Len(events')].created_by] = "None"]_vars

(***************************************************************************)
(* C25: process_time stores an event only if its datetime is not before    *)
(* the current time; a datetime in the past is answered with a new prompt, *)
(* and then no event is stored, nothing is announced, no job is scheduled  *)
(* and the conversation stays at the time step.  Every stored event        *)
(* therefore had event_datetime >= created_at.                             *)
(***************************************************************************)
PastReply == "You cannot create an event in the past."

C25_PastDatetimeRejected ==
  [][/\ \A e \in DOMAIN events' :
          events'[e].event_datetime >= events'[e].created_at
     /\ Len(events') > Len(events)
          => /\ events'[Len(events')].event_datetime >= utc_now(now).wall
             /\ probe' = probe
     /\ (probe' # probe /\ probe'.op = "reply" /\ probe'.text = PastReply)
          => /\ UNCHANGED << events, notifications, sent, jobs, fsm >>
             /\ fsm'[probe'.user] = "EventCreation:time"]_vars

\* the time step was refused while no event was stored, and the creator is
\* still asked for the time
C25_Witness ==
  /\ probe.op = "reply" /\ probe.text = PastReply
  /\ fsm[probe.user] = "EventCreation:time"
  /\ events = << >> /\ jobs = {}


(***************************************************************************)
(* C23: when db.add_user raises while process_last_name completes a        *)
(* registration, the handler catches the exception and the user gets the   *)
(* apology: no exception leaves the handler, and the reconciliation for    *)
(* the new user is not run.                                                *)
(***************************************************************************)
C23_AddUserFaultCaught ==
  [][\A r \in RunIds :
       (runs[r].pc = "add_user" /\ runs'[r].pc # "add_user"
          /\ failures' > failures)
       => /\ runs'[r].pc = "done"
          /\ CopiesIn(<< 0, runs[r].user, "apology" >>, sent')
               = CopiesIn(<< 0, runs[r].user, "apology" >>, sent) + 1]_vars


(***************************************************************************)
(* C24: when get_events_for_new_user finds no event for the user,          *)
(* schedule_notifications_for_new_user sends the user exactly one 'no      *)
(* upcoming events' message and returns: it writes no ledger row and       *)
(* schedules no job.                                                       *)
(***************************************************************************)
C24_NoUnseenEventsCourtesyOnly ==
  [][\A r \in RunIds :
       (/\ runs[r].pc = "fetch" /\ runs'[r].pc # "fetch"
        /\ up' /\ failures' = failures
        /\ get_events_for_new_user(events, notifications, runs[r].user,
                                   now, hostOff) = << >>)
       => /\ sent' = sent (+) SetToBag({<< 0, runs[r].user, "no_events" >>})
          /\ notifications' = notifications
          /\ jobs' = jobs
          /\ runs'[r].pc = "done"]_vars

\* a user who registered a second time after the ledger got the rows of
\* every stored event: the second run finds nothing and sends the courtesy
\* message
C24_Witness ==
  \E r \in RunIds :
    /\ runs[r].pc = "done" /\ events # << >>
    /\ \A e \in DOMAIN events : Recorded(e, runs[r].user, InitialType) = 1
    /\ Delivered(0, runs[r].user, "no_events") = 1
    /\ Delivered(0, runs[r].user, "welcome") = 1


(***************************************************************************)
(* C26: a broadcast job reads the users table when it fires, not when it   *)
(* is scheduled: the step that runs a due broadcast job with no failure    *)
(* delivers its reminder once to every user stored at that moment, a user  *)
(* registered after the job was scheduled included.                        *)
(***************************************************************************)
C26_RecipientsReadAtFireTime ==
  [][\A j \in jobs :
       (/\ up /\ up' /\ Due(j) /\ ~ Missed(j) /\ j \notin jobs'
        /\ j.id.user = NoUser /\ failures' = failures)
       => /\ lastBatch'.users = get_all_users(users)
          /\ \A u \in get_all_users(users) :
               NewDeliveries(j.args.event_id, u, j.args.text) = 1]_vars

\* the 6-hour reminder of an event has reached user 2, who was not stored
\* when the event was created and announced: no job of user 2's own is
\* ever due for that reminder, so the broadcast job scheduled at creation
\* delivered it
C26_Witness ==
  \E e \in DOMAIN events :
    /\ failures = 0 /\ restarts = 0
    /\ events[e].event_datetime = 100
    /\ Delivered(e, AdminId, "creation") = 1
    /\ Delivered(e, 2, "creation") = 0
    /\ Delivered(e, 2, "Event starts in 6 hours") = 1


(***************************************************************************)
(* C27: for an event at the local time T created at now = T - 25 h,        *)
(* schedule_event_notifications leaves exactly five jobs, due at T - 1 d,  *)
(* T - 6 h, T - 1 h, T - 15 min and T + 15 min; when the same event is     *)
(* reconciled at now = T - 10 min (the loop of on_startup over the stored  *)
(* events), exactly one job is enqueued for it, due at T + 15 min.         *)
(***************************************************************************)
C27_FiveJobsThenOne ==
  [][/\ (/\ Len(events') = Len(events) + 1 /\ fsm' # fsm
         /\ failures' = failures
         /\ now = events'[Len(events')].event_datetime - 25 * Hour1)
        => LET e == Len(events')
               T == events'[e].event_datetime
           IN {j \in jobs' : j.id.event = e} =
                {JobOf(e, 1, T - Day1), JobOf(e, 2, T - Hours6),
                 JobOf(e, 3, T - Hour1), JobOf(e, 4, T - Minutes15),
                 JobOf(e, 5, T + Minutes15)}
     /\ (~ up /\ up')
        => \A e \in DOMAIN events :
             now = events[e].event_datetime - 2
             => {j \in jobs' : j.id.event = e}
                  = {JobOf(e, 5, events[e].event_datetime + Minutes15)}]_vars

====
